---- MODULE Spec2Model ----
(***************************************************************************)
(* A model of heredity.py: exact inference by enumeration over a family    *)
(* network (gene copies 0/1/2 and a boolean trait per person).             *)
(*                                                                         *)
(* Arithmetic.  The program computes with Python floats.  Every number it  *)
(* forms before normalize is a finite sum of finite products of the        *)
(* decimal constants of PROBS, so it is modelled exactly, as a decimal     *)
(*   [m |-> limbs, e |-> k]   standing for   m * 10000^(-k)                *)
(* where m is a natural number written little-endian in limbs 0..9999.     *)
(* The representation is canonical (no high zero limb, no low zero limb    *)
(* unless e = 0), so two decimals are equal iff their records are equal.   *)
(* A quotient value / s of normalize is kept as the exact fraction         *)
(*   [n |-> value, d |-> s].                                               *)
(* Rounding of floats is therefore outside this model.                     *)
(***************************************************************************)
EXTENDS Integers, Sequences, FiniteSets, Bags, TLC

----------------------------------------------------------------------------
(* Natural numbers as little-endian limb sequences, base 10000.            *)

Limb(x) == x % 10000

Carry(x) == x \div 10000

Rest(s) == IF s = <<>> THEN <<>> ELSE Tail(s)

First(s) == IF s = <<>> THEN 0 ELSE Head(s)

RECURSIVE StripHigh(_)
StripHigh(s) ==
  IF s = <<>> THEN <<>>
  ELSE IF s[Len(s)] = 0 THEN StripHigh(SubSeq(s, 1, Len(s) - 1))
  ELSE s

RECURSIVE NatAddC(_, _, _)
NatAddC(a, b, c) ==
  IF a = <<>> /\ b = <<>>
  THEN (IF c = 0 THEN <<>> ELSE <<c>>)
  ELSE LET x == First(a) + First(b) + c
       IN  <<Limb(x)>> \o NatAddC(Rest(a), Rest(b), Carry(x))

NatAdd(a, b) == NatAddC(a, b, 0)

RECURSIVE NatSubB(_, _, _)
NatSubB(a, b, w) ==
  IF a = <<>> THEN <<>>
  ELSE LET x == First(a) - First(b) - w
       IN  IF x < 0
           THEN <<x + 10000>> \o NatSubB(Rest(a), Rest(b), 1)
           ELSE <<x>> \o NatSubB(Rest(a), Rest(b), 0)

\* a - b for a >= b
NatSub(a, b) == StripHigh(NatSubB(a, b, 0))

RECURSIVE NatMulSmall(_, _, _)
NatMulSmall(a, k, c) ==
  IF a = <<>>
  THEN (IF c = 0 THEN <<>> ELSE <<c>>)
  ELSE LET x == Head(a) * k + c
       IN  <<Limb(x)>> \o NatMulSmall(Tail(a), k, Carry(x))

ShiftUp(a) == IF a = <<>> THEN <<>> ELSE <<0>> \o a

RECURSIVE NatMul(_, _)
NatMul(a, b) ==
  IF a = <<>> \/ b = <<>> THEN <<>>
  ELSE NatAdd(StripHigh(NatMulSmall(b, Head(a), 0)), ShiftUp(NatMul(Tail(a), b)))

RECURSIVE PadLow(_, _)
PadLow(a, k) == IF k = 0 \/ a = <<>> THEN a ELSE PadLow(<<0>> \o a, k - 1)

----------------------------------------------------------------------------
(* Exact decimals.                                                         *)

RECURSIVE Canon(_, _)
Canon(m, e) ==
  IF m = <<>> THEN [m |-> <<>>, e |-> 0]
  ELSE IF e > 0 /\ Head(m) = 0 THEN Canon(Tail(m), e - 1)
  ELSE [m |-> m, e |-> e]

Max(x, y) == IF x >= y THEN x ELSE y

Dec(k, e) == Canon(IF k = 0 THEN <<>> ELSE <<k>>, e)

Zero == Dec(0, 0)

One == Dec(1, 0)

Half == Dec(5000, 1)

DecAdd(x, y) ==
  LET E == Max(x.e, y.e)
  IN  Canon(NatAdd(PadLow(x.m, E - x.e), PadLow(y.m, E - y.e)), E)

\* x - y for x >= y
DecSub(x, y) ==
  LET E == Max(x.e, y.e)
  IN  Canon(NatSub(PadLow(x.m, E - x.e), PadLow(y.m, E - y.e)), E)

DecMul(x, y) == Canon(NatMul(x.m, y.m), x.e + y.e)

\* The exact quotient value / s (s nonzero), kept unreduced.
Quot(v, s) == [n |-> v, d |-> s]

QuotEq(p, q) == DecMul(p.n, q.d) = DecMul(q.n, p.d)

QuotAdd(p, q) ==
  [n |-> DecAdd(DecMul(p.n, q.d), DecMul(q.n, p.d)), d |-> DecMul(p.d, q.d)]

----------------------------------------------------------------------------
(* PROBS: the fixed probability tables.                                    *)

\* PROBS["gene"][g]: unconditional probability of g copies
PROBS_gene(g) ==
  CASE g = 2 -> Dec(100, 1)
    [] g = 1 -> Dec(300, 1)
    [] g = 0 -> Dec(9600, 1)

\* PROBS["trait"][g][t]: probability of trait value t given g copies
PROBS_trait(g, t) ==
  CASE g = 2 -> (IF t THEN Dec(6500, 1) ELSE Dec(3500, 1))
    [] g = 1 -> (IF t THEN Dec(5600, 1) ELSE Dec(4400, 1))
    [] g = 0 -> (IF t THEN Dec(100, 1) ELSE Dec(9900, 1))

\* PROBS["mutation"]
PROBS_mutation == Dec(100, 1)

----------------------------------------------------------------------------
(* The data.  A csv row is [name, mother, father, trait], all strings.     *)
(* A dict keyed by person is a function together with its key order.       *)

None == "None"

GeneCounts == {0, 1, 2}

RECURSIVE Keys(_)
\* the keys of the dict load_data builds, in insertion order
Keys(rs) ==
  IF rs = <<>> THEN <<>>
  ELSE LET ks == Keys(SubSeq(rs, 1, Len(rs) - 1))
           nm == rs[Len(rs)].name
       IN  IF \E i \in 1..Len(ks) : ks[i] = nm THEN ks ELSE Append(ks, nm)

Range(s) == {s[i] : i \in 1..Len(s)}

\* load_data, had it dropped a parent name that is no row's name
load_data_known_parents(rs) ==
  LET names == {rs[i].name : i \in 1..Len(rs)}
  IN  [nm \in names |->
         LET last == CHOOSE i \in 1..Len(rs) :
                       /\ rs[i].name = nm
                       /\ \A j \in (i + 1)..Len(rs) : rs[j].name # nm
             row == rs[last]
         IN  [name   |-> nm,
              mother |-> IF row.mother \in names THEN row.mother ELSE None,
              father |-> IF row.father \in names THEN row.father ELSE None,
              trait  |-> IF row.trait = "1" THEN "True"
                         ELSE IF row.trait = "0" THEN "False" ELSE None]]

load_data(rs) ==
  [nm \in {rs[i].name : i \in 1..Len(rs)} |->
     LET last == CHOOSE i \in 1..Len(rs) :
                   /\ rs[i].name = nm
                   /\ \A j \in (i + 1)..Len(rs) : rs[j].name # nm
         row == rs[last]
     IN  [name   |-> nm,
          mother |-> IF row.mother = "" THEN None ELSE row.mother,
          father |-> IF row.father = "" THEN None ELSE row.father,
          trait  |-> IF row.trait = "1" THEN "True"
                     ELSE IF row.trait = "0" THEN "False" ELSE None]]

\* main: the all-zero table built over the keys of people
ZeroTable(ppl) ==
  [person \in DOMAIN ppl |->
     [gene |-> [g \in GeneCounts |-> Zero], trait |-> [t \in BOOLEAN |-> Zero]]]

----------------------------------------------------------------------------
(* powerset: itertools.combinations over list(s), r = 0 .. len(s).  The    *)
(* order of list(s) for a set s is not specified by the language: it is an *)
(* argument here, chosen by the caller.                                    *)

Perms(S) ==
  {q \in [1..Cardinality(S) -> S] : \A i, j \in 1..Cardinality(S) : q[i] = q[j] => i = j}

RECURSIVE Prepend(_, _)
Prepend(h, ss) ==
  IF ss = <<>> THEN <<>> ELSE <<(<<h>> \o Head(ss))>> \o Prepend(h, Tail(ss))

RECURSIVE combinations(_, _)
combinations(l, r) ==
  IF r = 0 THEN << <<>> >>
  ELSE IF Len(l) < r THEN <<>>
  ELSE Prepend(Head(l), combinations(Tail(l), r - 1)) \o combinations(Tail(l), r)

RECURSIVE chain(_, _)
chain(l, r) == IF r > Len(l) THEN <<>> ELSE combinations(l, r) \o chain(l, r + 1)

\* powerset, had it run r over range(len(s)): the full set is left out
powerset_short(l) ==
  LET cs == chain(l, 0)
      n  == Len(cs) - 1
  IN  [i \in 1..n |-> Range(cs[i])]

powerset(l) == LET cs == chain(l, 0) IN [i \in 1..Len(cs) |-> Range(cs[i])]

----------------------------------------------------------------------------
(* joint_probability and its helpers.                                      *)

GeneOf(person, one_gene, two_genes) ==
  IF person \in two_genes THEN 2 ELSE IF person \in one_gene THEN 1 ELSE 0

get_unknown_parent_gene_probability(child_has_gene) ==
  LET mu    == PROBS_mutation
      mixed == DecAdd(DecMul(Half, DecSub(One, mu)), DecMul(Half, mu))
  IN  IF child_has_gene
      THEN DecAdd(DecAdd(DecMul(PROBS_gene(0), mu),
                         DecMul(PROBS_gene(1), mixed)),
                  DecMul(PROBS_gene(2), DecSub(One, mu)))
      ELSE DecAdd(DecAdd(DecMul(PROBS_gene(0), DecSub(One, mu)),
                         DecMul(PROBS_gene(1), mixed)),
                  DecMul(PROBS_gene(2), mu))

\* get_parent_gene_probability, had a one-copy parent passed the gene on with
\* 0.5 * (1 - mutation), the mutation path left out
get_parent_gene_probability_no_mutation_path(child_has_gene, parent, parent_genes) ==
  LET mu    == PROBS_mutation
      mixed == DecMul(Half, DecSub(One, mu))
  IN  IF parent # None
      THEN IF child_has_gene
           THEN CASE parent_genes = 0 -> mu
                  [] parent_genes = 1 -> mixed
                  [] parent_genes = 2 -> DecSub(One, mu)
           ELSE CASE parent_genes = 0 -> DecSub(One, mu)
                  [] parent_genes = 1 -> mixed
                  [] parent_genes = 2 -> mu
      ELSE get_unknown_parent_gene_probability(child_has_gene)

get_parent_gene_probability(child_has_gene, parent, parent_genes) ==
  LET mu    == PROBS_mutation
      mixed == DecAdd(DecMul(Half, DecSub(One, mu)), DecMul(Half, mu))
  IN  IF parent # None
      THEN IF child_has_gene
           THEN CASE parent_genes = 0 -> mu
                  [] parent_genes = 1 -> mixed
                  [] parent_genes = 2 -> DecSub(One, mu)
           ELSE CASE parent_genes = 0 -> DecSub(One, mu)
                  [] parent_genes = 1 -> mixed
                  [] parent_genes = 2 -> mu
      ELSE get_unknown_parent_gene_probability(child_has_gene)

\* gene_prob, had one copy come from the mother only
gene_prob_mother_only(ppl, person, one_gene, two_genes) ==
  LET mother == ppl[person].mother
      father == ppl[person].father
      gene   == GeneOf(person, one_gene, two_genes)
      mother_genes == GeneOf(mother, one_gene, two_genes)
      father_genes == GeneOf(father, one_gene, two_genes)
      M(has) == get_parent_gene_probability(has, mother, mother_genes)
      F(has) == get_parent_gene_probability(has, father, father_genes)
  IN  IF mother = None /\ father = None
      THEN PROBS_gene(gene)
      ELSE CASE gene = 0 -> DecMul(M(FALSE), F(FALSE))
             [] gene = 1 -> DecMul(M(TRUE), F(FALSE))
             [] gene = 2 -> DecMul(M(TRUE), F(TRUE))

\* the gene_prob of one person inside joint_probability's loop
gene_prob(ppl, person, one_gene, two_genes) ==
  LET mother == ppl[person].mother
      father == ppl[person].father
      gene   == GeneOf(person, one_gene, two_genes)
      mother_genes == GeneOf(mother, one_gene, two_genes)
      father_genes == GeneOf(father, one_gene, two_genes)
      M(has) == get_parent_gene_probability(has, mother, mother_genes)
      F(has) == get_parent_gene_probability(has, father, father_genes)
  IN  IF mother = None /\ father = None
      THEN PROBS_gene(gene)
      ELSE CASE gene = 0 -> DecMul(M(FALSE), F(FALSE))
             [] gene = 1 -> DecAdd(DecMul(M(TRUE), F(FALSE)), DecMul(M(FALSE), F(TRUE)))
             [] gene = 2 -> DecMul(M(TRUE), F(TRUE))

RECURSIVE joint_loop_gene_only(_, _, _, _, _, _)
\* joint_loop, had it left trait_prob out of the product
joint_loop_gene_only(ppl, ks, one_gene, two_genes, have_trait, acc) ==
  IF ks = <<>> THEN acc
  ELSE joint_loop_gene_only(ppl, Tail(ks), one_gene, two_genes, have_trait,
                            DecMul(acc, gene_prob(ppl, Head(ks), one_gene, two_genes)))

RECURSIVE joint_loop(_, _, _, _, _, _)
\* joint_p after the loop has run over the persons of ks, starting from acc
joint_loop(ppl, ks, one_gene, two_genes, have_trait, acc) ==
  IF ks = <<>> THEN acc
  ELSE LET person     == Head(ks)
           gene       == GeneOf(person, one_gene, two_genes)
           trait      == person \in have_trait
           trait_prob == PROBS_trait(gene, trait)
       IN  joint_loop(ppl, Tail(ks), one_gene, two_genes, have_trait,
                      DecMul(acc, DecMul(gene_prob(ppl, person, one_gene, two_genes),
                                         trait_prob)))

joint_probability(ppl, ks, one_gene, two_genes, have_trait) ==
  joint_loop(ppl, ks, one_gene, two_genes, have_trait, One)

----------------------------------------------------------------------------
(* update and normalize.                                                   *)

\* update, had it counted the trait only for the persons of have_trait
update_trait_true_only(probs, one_gene, two_genes, have_trait, p) ==
  [person \in DOMAIN probs |->
     LET gene == GeneOf(person, one_gene, two_genes)
     IN  [gene  |-> [probs[person].gene EXCEPT ![gene] = DecAdd(@, p)],
          trait |-> IF person \in have_trait
                    THEN [probs[person].trait EXCEPT ![TRUE] = DecAdd(@, p)]
                    ELSE probs[person].trait]]

\* update, had it assigned p to the buckets (= for +=)
update_assign(probs, one_gene, two_genes, have_trait, p) ==
  [person \in DOMAIN probs |->
     LET gene  == GeneOf(person, one_gene, two_genes)
         trait == person \in have_trait
     IN  [gene  |-> [probs[person].gene EXCEPT ![gene] = p],
          trait |-> [probs[person].trait EXCEPT ![trait] = p]]]

update(probs, one_gene, two_genes, have_trait, p) ==
  [person \in DOMAIN probs |->
     LET gene  == GeneOf(person, one_gene, two_genes)
         trait == person \in have_trait
     IN  [gene  |-> [probs[person].gene EXCEPT ![gene] = DecAdd(@, p)],
          trait |-> [probs[person].trait EXCEPT ![trait] = DecAdd(@, p)]]]

\* sum(distribution.values()) of the two kinds of distribution
\* the gene sum, had the zero-copies bucket been left out
SumGene_without_zero_copies(d) == DecAdd(d[2], d[1])

SumGene(d) == DecAdd(DecAdd(d[2], d[1]), d[0])

SumTrait(d) == DecAdd(d[TRUE], d[FALSE])

RECURSIVE normalize_loop(_, _)
\* normalize over the persons of ks in dict order, "gene" before "trait".  A
\* zero sum makes value / s raise ZeroDivisionError at the first key of
\* that distribution: what was divided before stays divided.
normalize_loop(probs, ks) ==
  IF ks = <<>> THEN [table |-> probs, err |-> "none"]
  ELSE LET person == Head(ks)
           sg == SumGene(probs[person].gene)
           st == SumTrait(probs[person].trait)
           g1 == [probs EXCEPT ![person].gene = [g \in GeneCounts |-> Quot(@[g], sg)]]
           t1 == [g1 EXCEPT ![person].trait = [t \in BOOLEAN |-> Quot(@[t], st)]]
       IN  IF sg = Zero THEN [table |-> probs, err |-> "ZeroDivisionError"]
           ELSE IF st = Zero THEN [table |-> g1, err |-> "ZeroDivisionError"]
           ELSE normalize_loop(t1, Tail(ks))

RECURSIVE normalize_skipping(_, _)
\* normalize, had it passed over a histogram that sums to zero
normalize_skipping(probs, ks) ==
  IF ks = <<>> THEN [table |-> probs, err |-> "none"]
  ELSE LET person == Head(ks)
           sg == SumGene(probs[person].gene)
           st == SumTrait(probs[person].trait)
           g1 == IF sg = Zero THEN probs
                 ELSE [probs EXCEPT ![person].gene = [g \in GeneCounts |-> Quot(@[g], sg)]]
           t1 == IF st = Zero THEN g1
                 ELSE [g1 EXCEPT ![person].trait = [t \in BOOLEAN |-> Quot(@[t], st)]]
       IN  normalize_skipping(t1, Tail(ks))

normalize(probs, ks) == normalize_loop(probs, ks)

\* fails_evidence, had it tested the evidence for truth, not for "is not None"
fails_evidence_truthy(ppl, have_trait) ==
  \E person \in DOMAIN ppl :
    /\ ppl[person].trait = "True"
    /\ ppl[person].trait # (IF person \in have_trait THEN "True" ELSE "False")

\* main: the evidence test on a candidate have_trait
fails_evidence(ppl, have_trait) ==
  \E person \in DOMAIN ppl :
    /\ ppl[person].trait # None
    /\ ppl[person].trait # (IF person \in have_trait THEN "True" ELSE "False")

----------------------------------------------------------------------------
(* The datasets main is run on.                                            *)

MaxPeople == 1

NamePool == <<"a", "b", "c">>

Absent == "zed"

TraitFields == {"1", "0", ""}

\* every file of n rows with distinct names whose parent fields are blank,
\* another row's name, or a name that is in no row
FullDatasets(n) ==
  LET names == {NamePool[i] : i \in 1..n}
      fields == (names \cup {"", Absent}) \X (names \cup {"", Absent}) \X TraitFields
  IN  {[i \in 1..n |-> [name |-> NamePool[i], mother |-> f[i][1],
                        father |-> f[i][2], trait |-> f[i][3]]] :
         f \in {h \in [1..n -> fields] :
                  \A i \in 1..n : h[i][1] # NamePool[i] /\ h[i][2] # NamePool[i]}}

\* parent links <<mother, father>> per row, for families of two and three
Families ==
  { << <<"", "">>, <<"", "">> >>,
    << <<"", "">>, <<"a", "">> >>,
    << <<"", "">>, <<Absent, "a">> >>,
    << <<"", "">>, <<"", "">>, <<"a", "b">> >>,
    << <<"", "">>, <<"", "">>, <<"a", "">> >> }

FamilyDatasets ==
  UNION {{[i \in 1..Len(fam) |-> [name |-> NamePool[i], mother |-> fam[i][1],
                                  father |-> fam[i][2], trait |-> tr[i]]] :
            tr \in [1..Len(fam) -> TraitFields]} : fam \in Families}

Datasets == (UNION {FullDatasets(n) : n \in 1..MaxPeople}) \cup FamilyDatasets

----------------------------------------------------------------------------
(* main as a state machine.                                                *)

VARIABLES
  rows,          \* the csv file's rows
  people,        \* load_data's result
  persons,       \* key order of the dicts people and probabilities
  probabilities, \* the table of histograms
  names_list,    \* list(names): the iteration order of the set names
  ht_list,       \* have_trait values the outer loop has yet to take
  og_list,       \* one_gene values the middle loop has yet to take
  tg_list,       \* two_genes values the inner loop has yet to take
  have_trait,    \* the outer loop variable
  one_gene,      \* the middle loop variable
  calls,         \* history: the bag of (one_gene, two_genes, have_trait, p)
                 \* that joint_probability and update were called with
  err,           \* the exception that ended the run, or "none"
  pc

vars == <<rows, people, persons, probabilities, names_list, ht_list, og_list,
          tg_list, have_trait, one_gene, calls, err, pc>>

Call(og, tg, ht, p) == [one_gene |-> og, two_genes |-> tg, have_trait |-> ht, p |-> p]

Init ==
  /\ rows \in Datasets
  /\ people = <<>>
  /\ persons = <<>>
  /\ probabilities = <<>>
  /\ names_list = <<>>
  /\ ht_list = <<>>
  /\ og_list = <<>>
  /\ tg_list = <<>>
  /\ have_trait = {}
  /\ one_gene = {}
  /\ calls = EmptyBag
  /\ err = "none"
  /\ pc = "start"

\* lines 45-65: load the file, build the zero table, start the outer loop
LoadData ==
  /\ pc = "start"
  /\ people' = load_data(rows)
  /\ persons' = Keys(rows)
  /\ probabilities' = ZeroTable(people')
  /\ \E order \in Perms(DOMAIN people') :
       /\ names_list' = order
       /\ ht_list' = powerset(order)
  /\ pc' = "outer"
  /\ UNCHANGED <<rows, og_list, tg_list, have_trait, one_gene, calls, err>>

\* lines 65-77: one turn of the loop over have_trait
OuterStep ==
  /\ pc = "outer"
  /\ IF ht_list = <<>>
     THEN /\ pc' = "normalize"
          /\ UNCHANGED <<ht_list, have_trait, og_list>>
     ELSE /\ have_trait' = Head(ht_list)
          /\ ht_list' = Tail(ht_list)
          /\ IF fails_evidence(people, Head(ht_list))
             THEN pc' = "outer" /\ UNCHANGED og_list
             ELSE pc' = "middle" /\ og_list' = powerset(names_list)
  /\ UNCHANGED <<rows, people, persons, probabilities, names_list, tg_list,
                 one_gene, calls, err>>

\* lines 77-78: one turn of the loop over one_gene
MiddleStep ==
  /\ pc = "middle"
  /\ IF og_list = <<>>
     THEN /\ pc' = "outer"
          /\ UNCHANGED <<og_list, one_gene, tg_list>>
     ELSE /\ one_gene' = Head(og_list)
          /\ og_list' = Tail(og_list)
          /\ \E order \in Perms(DOMAIN people \ Head(og_list)) :
               tg_list' = powerset(order)
          /\ pc' = "inner"
  /\ UNCHANGED <<rows, people, persons, probabilities, names_list, ht_list,
                 have_trait, calls, err>>

\* lines 78-82: one turn of the loop over two_genes
InnerStep ==
  /\ pc = "inner"
  /\ IF tg_list = <<>>
     THEN /\ pc' = "middle"
          /\ UNCHANGED <<tg_list, probabilities, calls>>
     ELSE LET two_genes == Head(tg_list)
              p == joint_probability(people, persons, one_gene, two_genes, have_trait)
          IN  /\ probabilities' = update(probabilities, one_gene, two_genes, have_trait, p)
              /\ calls' = calls (+) SetToBag({Call(one_gene, two_genes, have_trait, p)})
              /\ tg_list' = Tail(tg_list)
              /\ pc' = "inner"
  /\ UNCHANGED <<rows, people, persons, names_list, ht_list, og_list,
                 have_trait, one_gene, err>>

\* line 85
Normalize ==
  /\ pc = "normalize"
  /\ LET r == normalize(probabilities, persons)
     IN  /\ probabilities' = r.table
         /\ err' = r.err
         /\ pc' = IF r.err = "none" THEN "done" ELSE "error"
  /\ UNCHANGED <<rows, people, persons, names_list, ht_list, og_list, tg_list,
                 have_trait, one_gene, calls>>

Next == LoadData \/ OuterStep \/ MiddleStep \/ InnerStep \/ Normalize

Spec == Init /\ [][Next]_vars

----------------------------------------------------------------------------
(* update called on its own: any sequence of calls on a zero table.        *)

MaxCalls == 2

UpdateNames == {"a", "b"}

UpdateMasses == {Dec(300, 1), Half}

InitUpdate ==
  /\ rows = <<>>
  /\ people = <<>>
  /\ persons = <<"a", "b">>
  /\ probabilities = ZeroTable([person \in UpdateNames |-> None])
  /\ names_list = <<>>
  /\ ht_list = <<>>
  /\ og_list = <<>>
  /\ tg_list = <<>>
  /\ have_trait = {}
  /\ one_gene = {}
  /\ calls = EmptyBag
  /\ err = "none"
  /\ pc = "update"

UpdateCall ==
  /\ pc = "update"
  /\ BagCardinality(calls) < MaxCalls
  /\ \E og \in SUBSET UpdateNames, ht \in SUBSET UpdateNames, p \in UpdateMasses :
       \E tg \in SUBSET (UpdateNames \ og) :
         /\ probabilities' = update(probabilities, og, tg, ht, p)
         /\ calls' = calls (+) SetToBag({Call(og, tg, ht, p)})
  /\ UNCHANGED <<rows, people, persons, names_list, ht_list, og_list, tg_list,
                 have_trait, one_gene, err, pc>>

NextUpdate == UpdateCall

SpecUpdate == InitUpdate /\ [][NextUpdate]_vars

----------------------------------------------------------------------------
(* normalize called on its own, on any table of two persons.               *)

NormalizeMasses == {Zero, Dec(2500, 1)}

InitNormalize ==
  /\ rows = <<>>
  /\ people = <<>>
  /\ persons = <<"a", "b">>
  /\ probabilities \in [{"a", "b"} -> [gene : [GeneCounts -> NormalizeMasses],
                                      trait : [BOOLEAN -> NormalizeMasses]]]
  /\ names_list = <<>>
  /\ ht_list = <<>>
  /\ og_list = <<>>
  /\ tg_list = <<>>
  /\ have_trait = {}
  /\ one_gene = {}
  /\ calls = EmptyBag
  /\ err = "none"
  /\ pc = "normalize"

NextNormalize == Normalize

SpecNormalize == InitNormalize /\ [][NextNormalize]_vars

----------------------------------------------------------------------------
(* What the properties are stated with.                                    *)

RECURSIVE NatLeq(_, _)
\* a <= b, for a and b without high zero limbs at the outermost call
NatLeq(a, b) ==
  IF Len(a) # Len(b) THEN Len(a) < Len(b)
  ELSE IF a = <<>> THEN TRUE
  ELSE IF a[Len(a)] # b[Len(b)] THEN a[Len(a)] < b[Len(b)]
  ELSE NatLeq(SubSeq(a, 1, Len(a) - 1), SubSeq(b, 1, Len(b) - 1))

DecLeq(x, y) ==
  LET E == Max(x.e, y.e)
  IN  NatLeq(PadLow(x.m, E - x.e), PadLow(y.m, E - y.e))

IsOne(q) == QuotEq(q, Quot(One, One))

QuotSumGene(h) == QuotAdd(QuotAdd(h[2], h[1]), h[0])

QuotSumTrait(h) == QuotAdd(h[TRUE], h[FALSE])

Finished == pc \in {"normalize", "done", "error"}

Evidence(ppl, person) == ppl[person].trait # None

Observed(ppl, person) == ppl[person].trait = "True"

RECURSIVE CallsSum(_, _)
\* the sum of p over the calls of S, each as often as the bag B holds it
CallsSum(S, B) ==
  IF S = {} THEN Zero
  ELSE LET c == CHOOSE d \in S : TRUE
       IN  DecAdd(DecMul(c.p, Dec(CopiesIn(c, B), 0)), CallsSum(S \ {c}, B))

CallSet == BagToSet(calls)

\* the calls made so far in the current turn of the loop over one_gene (every
\* call is one of these in the state that follows it)
CurrentCalls == {c \in CallSet : c.have_trait = have_trait /\ c.one_gene = one_gene}

\* the assignments main is to evaluate: disjoint gene groups, and a trait
\* group that agrees with the evidence
AllAssignments(ppl) ==
  {t \in (SUBSET DOMAIN ppl) \X (SUBSET DOMAIN ppl) \X (SUBSET DOMAIN ppl) :
     /\ t[1] \cap t[2] = {}
     /\ \A person \in DOMAIN ppl :
          Evidence(ppl, person) => (Observed(ppl, person) <=> person \in t[3])}

\* the joint probability of every assignment of S, as a tabulated function
MassTable(ppl, ks, S) ==
  [t \in S |-> joint_probability(ppl, ks, t[1], t[2], t[3])] @@ <<>>

RECURSIVE MassOfGroup(_, _)
\* the sum of the masses m[t] over the assignments t of S
MassOfGroup(m, S) ==
  IF S = {} THEN Zero
  ELSE LET t == CHOOSE u \in S : TRUE
       IN  DecAdd(m[t], MassOfGroup(m, S \ {t}))

RECURSIVE MassByOneGene(_, _, _)
\* the same sum, taken one_gene group by one_gene group over the groups G
MassByOneGene(m, S, G) ==
  IF G = {} THEN Zero
  ELSE LET og == CHOOSE u \in G : TRUE
       IN  DecAdd(MassOfGroup(m, {t \in S : t[1] = og}), MassByOneGene(m, S, G \ {og}))

RECURSIVE MassByTrait(_, _, _)
\* the same sum, taken have_trait group by have_trait group over the groups H
MassByTrait(m, S, H) ==
  IF H = {} THEN Zero
  ELSE LET ht == CHOOSE u \in H : TRUE
           part == {t \in S : t[3] = ht}
       IN  DecAdd(MassByOneGene(m, part, {t[1] : t \in part}), MassByTrait(m, S, H \ {ht}))

\* the sum of the masses m[t] over the assignments t of S
MassOf(m, S) == MassByTrait(m, S, {t[3] : t \in S})

\* the conditional probability model as the specification words it
transmissionProbability(parentGeneCount) ==
  CASE parentGeneCount = 0 -> PROBS_mutation
    [] parentGeneCount = 1 -> Half
    [] parentGeneCount = 2 -> DecSub(One, PROBS_mutation)

childGeneDistribution(motherCount, fatherCount, g) ==
  LET tm == transmissionProbability(motherCount)
      tf == transmissionProbability(fatherCount)
      no(t) == DecSub(One, t)
  IN  CASE g = 0 -> DecMul(no(tm), no(tf))
        [] g = 1 -> DecAdd(DecMul(tm, no(tf)), DecMul(no(tm), tf))
        [] g = 2 -> DecMul(tm, tf)

RECURSIVE JointProduct(_, _, _, _, _)
\* the product over the persons of S of gene factor times trait likelihood
JointProduct(ppl, S, og, tg, ht) ==
  IF S = {} THEN One
  ELSE LET person == CHOOSE x \in S : TRUE
           gene   == GeneOf(person, og, tg)
           factor == IF ppl[person].mother = None
                     THEN PROBS_gene(gene)
                     ELSE childGeneDistribution(GeneOf(ppl[person].mother, og, tg),
                                                GeneOf(ppl[person].father, og, tg), gene)
       IN  DecMul(DecMul(factor, PROBS_trait(gene, person \in ht)),
                  JointProduct(ppl, S \ {person}, og, tg, ht))

\* each person has no recorded parent, or two that are persons of the dataset
ValidFamily(ppl) ==
  \A person \in DOMAIN ppl :
    \/ ppl[person].mother = None /\ ppl[person].father = None
    \/ ppl[person].mother \in DOMAIN ppl /\ ppl[person].father \in DOMAIN ppl

\* a row names a parent that is no row's name, or has exactly one parent
BadParents(rs) ==
  \E i \in 1..Len(rs) :
    \/ (rs[i].mother = "") # (rs[i].father = "")
    \/ \E par \in {rs[i].mother, rs[i].father} \ {""} :
         \A j \in 1..Len(rs) : rs[j].name # par

NoEvidence(fam) ==
  [i \in 1..Len(fam) |-> [name |-> NamePool[i], mother |-> fam[i][1],
                          father |-> fam[i][2], trait |-> ""]]

TrioRows == NoEvidence(<< <<"", "">>, <<"", "">>, <<"a", "b">> >>)

TwoFounderRows == NoEvidence(<< <<"", "">>, <<"", "">> >>)

----------------------------------------------------------------------------
(* The properties.                                                         *)

\* C1: once main's loops and normalize have run, the run has not failed and
\* every person's gene histogram sums to 1 and every person's trait histogram
\* sums to 1 (exactly).
C1_HistogramsSumToOne ==
  /\ pc # "error"
  /\ pc = "done" =>
       \A person \in DOMAIN probabilities :
         /\ IsOne(QuotSumGene(probabilities[person].gene))
         /\ IsOne(QuotSumTrait(probabilities[person].trait))

C1_Witness ==
  /\ pc = "done"
  /\ Len(rows) = 3
  /\ \E person \in DOMAIN people : people[person].mother # None
  /\ \E person \in DOMAIN people : Evidence(people, person)

\* C2: every call main makes has each person with evidence True inside
\* have_trait and each person with evidence False outside it; and after
\* normalize a person with evidence has trait mass 1 on the observed value
\* and 0 on the other.
C2_EvidenceRespected ==
  /\ \A c \in CurrentCalls : \A person \in DOMAIN people :
       Evidence(people, person) =>
         (Observed(people, person) <=> person \in c.have_trait)
  /\ pc = "done" =>
       \A person \in DOMAIN people :
         Evidence(people, person) =>
           /\ IsOne(probabilities[person].trait[Observed(people, person)])
           /\ probabilities[person].trait[~Observed(people, person)].n = Zero

C2_Witness ==
  /\ pc = "done"
  /\ \E x, y, z \in DOMAIN people :
       /\ people[x].trait = "True"
       /\ people[y].trait = "False"
       /\ people[z].trait = None

C4_NormalizationError ==
  [][(pc = "normalize" /\ \E person \in DOMAIN probabilities :
        \/ SumGene(probabilities[person].gene) = Zero
        \/ SumTrait(probabilities[person].trait) = Zero)
     => err' = "NormalizationError"]_vars

\* the place of a histogram in normalize's order: persons in key order, the
\* gene histogram of a person before its trait histogram
Place(i, feature) == 2 * i - (IF feature = "gene" THEN 1 ELSE 0)

ZeroPlaces(probs, ks) ==
  {Place(i, "gene") : i \in {j \in 1..Len(ks) : SumGene(probs[ks[j]].gene) = Zero}}
    \cup
  {Place(i, "trait") : i \in {j \in 1..Len(ks) : SumTrait(probs[ks[j]].trait) = Zero}}

\* C4 amended: whenever a histogram sums to zero, normalize fails with a
\* ZeroDivisionError (which names no person) and returns no table; the
\* histograms before the first zero-sum one have by then been divided by
\* their sums in place and all the others are as they were.  When no
\* histogram sums to zero it does not fail and every histogram sums to 1.
C4_ZeroDivisionError ==
  [][pc = "normalize" =>
       LET zs == ZeroPlaces(probabilities, persons)
           first == CHOOSE z \in zs : \A y \in zs : z <= y
       IN  IF zs # {}
           THEN /\ err' = "ZeroDivisionError"
                /\ pc' = "error"
                /\ \A i \in 1..Len(persons) :
                     LET old == probabilities[persons[i]]
                         new == probabilities'[persons[i]]
                     IN  /\ new.gene =
                              IF Place(i, "gene") < first
                              THEN [g \in GeneCounts |-> Quot(old.gene[g], SumGene(old.gene))]
                              ELSE old.gene
                         /\ new.trait =
                              IF Place(i, "trait") < first
                              THEN [t \in BOOLEAN |-> Quot(old.trait[t], SumTrait(old.trait))]
                              ELSE old.trait
           ELSE /\ err' = "none"
                /\ pc' = "done"
                /\ \A person \in DOMAIN probabilities' :
                     /\ IsOne(QuotSumGene(probabilities'[person].gene))
                     /\ IsOne(QuotSumTrait(probabilities'[person].trait))]_vars

\* normalize has failed on the second person's trait histogram, after
\* dividing the three histograms before it
C4_Witness ==
  /\ pc = "error"
  /\ err = "ZeroDivisionError"
  /\ probabilities["a"].gene = [g \in GeneCounts |-> Quot(Dec(2500, 1), Dec(7500, 1))]
  /\ probabilities["a"].trait = [t \in BOOLEAN |-> Quot(Dec(2500, 1), Half)]
  /\ probabilities["b"].gene = [g \in GeneCounts |-> Quot(Dec(2500, 1), Dec(7500, 1))]
  /\ probabilities["b"].trait = [t \in BOOLEAN |-> Zero]

\* C5: on a family in which every person has no parent or two parents of the
\* dataset, every joint_probability main computes is the product over the
\* persons of traitLikelihood times the gene factor: the prior for a founder,
\* childGeneDistribution of the parents' counts otherwise.
C5_JointIsProductOfFactors ==
  ValidFamily(people) =>
    \A c \in CurrentCalls :
      c.p = JointProduct(people, DOMAIN people, c.one_gene, c.two_genes, c.have_trait)

C5_Witness ==
  /\ rows = TrioRows
  /\ \E c \in CallSet :
       /\ "c" \in c.one_gene
       /\ "a" \in c.two_genes
       /\ "b" \notin (c.one_gene \cup c.two_genes)
       /\ "c" \in c.have_trait

\* C6: main calls joint_probability with disjoint gene groups only and never
\* twice with the same assignment; when the loops have finished it has called
\* it for exactly the assignments that agree with the evidence: 3^n * 2^u of
\* them for n persons of which u have no evidence.
C6_EnumerationExhaustive ==
  /\ \A c \in CallSet :
       /\ c.one_gene \cap c.two_genes = {}
       /\ CopiesIn(c, calls) = 1
  /\ Finished =>
       /\ Cardinality({<<c.one_gene, c.two_genes, c.have_trait>> : c \in CallSet})
            = BagCardinality(calls)
       /\ {<<c.one_gene, c.two_genes, c.have_trait>> : c \in CallSet}
            = AllAssignments(people)
       /\ BagCardinality(calls)
            = 3 ^ Cardinality(DOMAIN people)
                * 2 ^ Cardinality({x \in DOMAIN people : ~Evidence(people, x)})

C6_Witness ==
  /\ pc = "done"
  /\ Len(rows) = 1
  /\ rows[1].trait = ""
  /\ BagCardinality(calls) = 6

\* the child's gene-count mass for g: childGeneDistribution weighted by the
\* priors of the two founders, summed over their gene-counts
Integrated(g) ==
  LET term(gm, gf) ==
        DecMul(DecMul(PROBS_gene(gm), PROBS_gene(gf)), childGeneDistribution(gm, gf, g))
      row(gm) == DecAdd(DecAdd(term(gm, 0), term(gm, 1)), term(gm, 2))
  IN  DecAdd(DecAdd(row(0), row(1)), row(2))

TrioMarginal ==
  \A g \in GeneCounts : QuotEq(probabilities["c"].gene[g], Quot(Integrated(g), One))

\* the decimal 0.hhhhllll
Dec8(hi, lo) == DecAdd(Dec(hi, 1), Dec(lo, 2))

\* lo <= q <= hi for a quotient q with a positive denominator
QuotBetween(lo, q, hi) == DecLeq(DecMul(lo, q.d), q.n) /\ DecLeq(q.n, DecMul(hi, q.d))

\* C7 as stated: for a child and its two founder parents without evidence,
\* the child's normalized gene marginal is childGeneDistribution integrated
\* over the founders' priors, and its value at 2 copies is 0.0082 to four
\* decimal places.
C7_ChildMarginal0082 ==
  (rows = TrioRows /\ pc = "done") =>
    /\ TrioMarginal
    /\ QuotBetween(Dec8(81, 5000), probabilities["c"].gene[2], Dec8(82, 5000))

\* C7 amended: the marginal is the integrated childGeneDistribution, and its
\* value at 2 copies is 0.00119025, that is 0.0012 to four decimal places.
C7_ChildMarginal0012 ==
  (rows = TrioRows /\ pc = "done") =>
    /\ TrioMarginal
    /\ QuotEq(probabilities["c"].gene[2], Quot(Dec8(11, 9025), One))
    /\ QuotBetween(Dec8(11, 5000), probabilities["c"].gene[2], Dec8(12, 5000))

C7_Witness ==
  /\ rows = TrioRows
  /\ pc = "done"
  /\ names_list = <<"c", "a", "b">>

\* C8: for two founders without evidence, each one's normalized gene marginal
\* is the gene prior, and the mass accumulated for the pair of gene-counts
\* (g1, g2) is prior(g1) * prior(g2).
C8_FoundersIndependent ==
  rows = TwoFounderRows =>
    /\ pc = "done" =>
         \A person \in {"a", "b"} : \A g \in GeneCounts :
           QuotEq(probabilities[person].gene[g], Quot(PROBS_gene(g), One))
    /\ Finished =>
         \A g1, g2 \in GeneCounts :
           CallsSum({c \in CallSet : /\ GeneOf("a", c.one_gene, c.two_genes) = g1
                                     /\ GeneOf("b", c.one_gene, c.two_genes) = g2},
                    calls)
             = DecMul(PROBS_gene(g1), PROBS_gene(g2))

C8_Witness ==
  /\ rows = TwoFounderRows
  /\ pc = "done"
  /\ BagCardinality(calls) = 36

\* C9: after any sequence of update calls on a zero table, each gene bucket
\* holds the sum of p over the calls whose assignment gives the person that
\* gene-count, each trait bucket the sum of p over the calls that give the
\* person that trait value, and both histograms of every person total the
\* sum of all p.
C9_BucketsSumTheCalls ==
  \A person \in DOMAIN probabilities :
    /\ \A g \in GeneCounts :
         probabilities[person].gene[g]
           = CallsSum({c \in CallSet : GeneOf(person, c.one_gene, c.two_genes) = g}, calls)
    /\ \A t \in BOOLEAN :
         probabilities[person].trait[t]
           = CallsSum({c \in CallSet : (person \in c.have_trait) = t}, calls)
    /\ SumGene(probabilities[person].gene) = CallsSum(CallSet, calls)
    /\ SumTrait(probabilities[person].trait) = CallsSum(CallSet, calls)

C9_Witness ==
  /\ pc = "update"
  /\ \E c, d \in CallSet :
       /\ "a" \in c.one_gene /\ "a" \in d.two_genes
       /\ "b" \in c.have_trait /\ "b" \notin d.have_trait
       /\ c.p # d.p

\* C10: the table main ends with depends on the dataset only: whatever order
\* the subsets were enumerated in, each bucket is the mass of the assignments
\* that agree with the evidence and give the person that value, over the mass
\* of all assignments that agree with the evidence.
C10_OutputFunctionOfDataset ==
  pc = "done" =>
    \A all \in {AllAssignments(people)} :
      \A m \in {MassTable(people, persons, all)} :
        \A total \in {MassOf(m, all)} :
          \A person \in DOMAIN people :
            /\ \A g \in GeneCounts :
                 probabilities[person].gene[g]
                   = Quot(MassOf(m, {t \in all : GeneOf(person, t[1], t[2]) = g}), total)
            /\ \A tv \in BOOLEAN :
                 probabilities[person].trait[tv]
                   = Quot(MassOf(m, {t \in all : (person \in t[3]) = tv}), total)

\* a finished run that enumerated the names in an order other than file order
C10_Witness ==
  /\ pc = "done"
  /\ Len(persons) = 3
  /\ names_list = <<persons[3], persons[1], persons[2]>>

====
